---- MODULE Spec2Model ----
(***************************************************************************)
(* A model of Imagine/imagine.py: one run of the command-line program.     *)
(* One behaviour is one invocation: the arguments are drawn in Init, the   *)
(* command handler runs, calls at most one provider function, and the      *)
(* process exits.  Provider responses are drawn where the code receives    *)
(* them.                                                                   *)
(***************************************************************************)
EXTENDS Integers, Sequences, FiniteSets, TLC

\* The number of status polls one run of the model follows (the code has none).
MaxPolls == 3

\* time.sleep(1.5), in milliseconds.
PollIntervalMs == 1500

(***************************************************************************)
(* Python values.                                                          *)
(***************************************************************************)
\* Python's None, and a dictionary key that is not there.
None == "<None>"
Absent == "<absent>"

\* str(x) as an f-string renders it.
Str(x) == IF x = None THEN "None" ELSE x

\* bool(x) of a string or None: None and "" are false.
Truthy(x) == x # None /\ x # ""

\* d.get(k): the value, None when the key is not there.
Get(v) == IF v = Absent THEN None ELSE v

\* a or b
Or(a, b) == IF Truthy(a) THEN a ELSE b

\* requests.Response.raise_for_status(): raises for 4xx and 5xx.
raise_for_status(code) == code >= 400 /\ code < 600

\* PIL.Image.open(io.BytesIO(content)): the decoded image, None when the bytes
\* are no image (the call raises).
Image_open(content) ==
    CASE content = "png_A" -> "Image_A"
      [] content = "png_B" -> "Image_B"
      [] OTHER -> None

(***************************************************************************)
(* What the provider can answer.                                           *)
(***************************************************************************)
HttpCodes == {200, 500}

\* The JSON body of the submission response: its "id".
IdValues == {Absent, "", "req-1"}

\* The JSON body of a status response: "status" (Absent: no such field),
\* "result" (Absent, "null", or "dict": an object) and result's "sample"
\* (Absent, "" or a URL; it only means something inside an object).
StatusValues == {"Queued", "Processing", "Pending", "Ready", "Error",
                 "Task not found", Absent}
ResultValues == {Absent, "null", "dict"}
SampleValues == {Absent, "", "https://bfl/sample.png"}
StatusBodies ==
    {[status |-> s, result |-> r, sample |-> IF r = "dict" THEN m ELSE Absent] :
        s \in StatusValues, r \in ResultValues, m \in SampleValues}
NoBody == [status |-> "-", result |-> "-", sample |-> "-"]

\* A status GET that raise_for_status refused, as the poll history holds it.
HttpFailed == "<http error>"

\* No response yet.
NoResponse == [code |-> 0, id |-> "-", content |-> "-"]

\* The bytes a content GET can carry.
Contents == {"png_A", "png_B", "garbage"}

(***************************************************************************)
(* Errors: the exception's type, its literal text and, for the status      *)
(* failure, the two values its message is formatted from.                  *)
(***************************************************************************)
Err(type, text, status, payload) ==
    [type |-> type, text |-> text, status |-> status, payload |-> payload]
NoError == Err("none", "", "", NoBody)
HTTPError == Err("HTTPError", "raise_for_status", "", NoBody)

\* A printed line: its literal text and the error formatted into it.
Line(text, e) == [text |-> text, err |-> e]

RECURSIVE Count(_, _)
Count(s, x) ==
    IF s = <<>> THEN 0
    ELSE (IF s[1] = x THEN 1 ELSE 0) + Count(Tail(s), x)

(***************************************************************************)
(* State.                                                                  *)
(***************************************************************************)
VARIABLES
    cmd,          \* the subcommand
    provider,     \* --provider
    input,        \* what the input argument names: "file", "missing", "url", "none"
    mask,         \* what --mask names: "none", "file", "missing"
    n,            \* --n
    output,       \* --output, a path as its sequence of characters
    output_dir,   \* --output-dir, the empty path when it is not given
    flag_key,     \* the key flag of the run's provider (--api-key, --bfl-api-key, --elevenlabs-api-key)
    env_key,      \* that provider's environment variable, as the process was given it
    file_key,     \* the contents of that provider's key file, None when there is none
    pc,           \* where the run is
    events,       \* sleeps and network calls, in order
    stdout,       \* printed lines, in order
    exitCode,     \* the process's exit code, None while it runs
    outputs,      \* output files written: the path, and which returned image it holds
    tempFiles,    \* temporary files that exist
    bfl_api_key,  \* bfl_*_image: the resolved key
    request_id,   \* bfl_*_image: the job identifier
    response,     \* bfl_*_image: the submission response
    polled,       \* bfl_*_image: what every status GET gave, in order: the status, or HttpFailed
    img_response, \* bfl_*_image: the content GET's response
    slept,        \* bfl_*_image: the time slept, in milliseconds
    result_data,  \* bfl_*_image: the latest status response's body
    image_url,    \* bfl_*_image: the result URL
    ret,          \* what the provider function returned, None before and on error
    exc,          \* the exception in flight, NoError when there is none
    client_key,   \* the key the OpenAI or ElevenLabs client is built with
    epc,          \* bfl_edit_image replayed beside bfl_generate_image: where it is
    eevents,      \* ... its sleeps and network calls, in order
    eret,         \* ... what it returned
    eexc          \* ... the exception it raised

args == <<cmd, provider, input, mask, n, output, output_dir, flag_key, env_key, file_key>>
job == <<bfl_api_key, request_id, response, polled, img_response, slept, result_data, image_url>>
twin == <<epc, eevents, eret, eexc>>
vars == <<args, twin, client_key, pc, events, stdout, exitCode, outputs, tempFiles, job, ret, exc>>

polls == Count(events, "GET_status")
posts == Count(events, "POST")
fetches == Count(events, "GET_content")
sleeps == Count(events, "sleep")

\* The provider function a command calls for --provider bfl.
Fn == IF cmd = "generate" THEN "bfl_generate_image" ELSE "bfl_edit_image"

Raise(e) == /\ exc' = e
            /\ ret' = None
            /\ pc' = "except"

Return(v) == /\ ret' = v
             /\ exc' = NoError
             /\ pc' = "returned"

(***************************************************************************)
(* Credentials.                                                            *)
(***************************************************************************)
\* str.strip() of a key file's contents.
strip(text) ==
    CASE text = " filekey\n" -> "filekey"
      [] text = "  \n" -> ""
      [] OTHER -> text

\* load_api_key_from_file: the stripped contents, None without a file or
\* when that is empty.
load_api_key_from_file(contents) ==
    IF contents # None /\ Truthy(strip(contents)) THEN strip(contents) ELSE None

\* os.getenv("BFL_API_KEY") once the module is loaded: the key file's key is
\* put into the environment when the variable is unset or empty.
os_getenv_BFL_API_KEY ==
    IF Truthy(load_api_key_from_file(file_key)) /\ ~Truthy(env_key)
    THEN load_api_key_from_file(file_key)
    ELSE env_key

\* The key file asked before the environment.
FileBeforeEnv ==
    IF Truthy(load_api_key_from_file(file_key)) THEN load_api_key_from_file(file_key)
    ELSE env_key

load_bfl_api_key ==
    IF Truthy(os_getenv_BFL_API_KEY) THEN os_getenv_BFL_API_KEY
    ELSE load_api_key_from_file(file_key)

\* os.getenv("OPENAI_API_KEY") once the module is loaded (lines 48-50).
os_getenv_OPENAI_API_KEY ==
    IF Truthy(load_api_key_from_file(file_key)) /\ ~Truthy(env_key)
    THEN load_api_key_from_file(file_key)
    ELSE env_key

\* os.getenv("ELEVENLABS_API_KEY") once the module is loaded (lines 52-54).
os_getenv_ELEVENLABS_API_KEY ==
    IF Truthy(load_api_key_from_file(file_key)) /\ ~Truthy(env_key)
    THEN load_api_key_from_file(file_key)
    ELSE env_key

load_elevenlabs_api_key ==
    IF Truthy(os_getenv_ELEVENLABS_API_KEY) THEN os_getenv_ELEVENLABS_API_KEY
    ELSE load_api_key_from_file(file_key)

\* client_params["api_key"]: api_key or os.getenv("OPENAI_API_KEY").
openai_api_key == Or(flag_key, os_getenv_OPENAI_API_KEY)

(***************************************************************************)
(* The arguments of a run.                                                 *)
(***************************************************************************)
FlagKeys == {None, "", "flagkey"}
EnvKeys == {None, "", "envkey"}
FileKeys == {None, "  \n", " filekey\n"}

(***************************************************************************)
(* Paths, as sequences of characters.                                      *)
(***************************************************************************)
out_png == <<"o", "u", "t", ".", "p", "n", "g">>
NoDir == <<>>
OutputArgs == {out_png, <<"o", "u", "t">>}
OutputDirs == {NoDir, <<"w", ".", "d">>}

\* resolve_output_path: under the output directory when one is given (the
\* paths of OutputArgs are relative).
resolve_output_path(output_path, dir) ==
    IF dir # <<>> THEN dir \o <<"/">> \o output_path ELSE output_path

\* The index of the last "." of s, 0 when it has none.
RECURSIVE rfind(_, _)
rfind(s, i) == IF i = 0 THEN 0 ELSE IF s[i] = "." THEN i ELSE rfind(s, i - 1)

\* s.rsplit('.', 1): the parts before and after the last "." of s, or s alone.
rsplit(s) ==
    IF rfind(s, Len(s)) = 0 THEN <<s>>
    ELSE <<SubSeq(s, 1, rfind(s, Len(s)) - 1), SubSeq(s, rfind(s, Len(s)) + 1, Len(s))>>

\* f"{i}" of a small index.
str(i) == <<ToString(i)>>

\* Lines 663-668: the path of the i-th variation.
VariationPath(base_output, i) ==
    LET base_name == rsplit(base_output)[1]
        extension == IF rfind(base_output, Len(base_output)) # 0
                     THEN rsplit(base_output)[2] ELSE <<"p", "n", "g">>
    IN  base_name \o <<"_">> \o str(i) \o <<".">> \o extension

\* Nothing has run yet.
Idle ==
    /\ pc = "start"
    /\ events = <<>>
    /\ stdout = <<>>
    /\ exitCode = None
    /\ outputs = {}
    /\ tempFiles = {}
    /\ bfl_api_key = None
    /\ request_id = None
    /\ response = NoResponse
    /\ polled = <<>>
    /\ img_response = NoResponse
    /\ slept = 0
    /\ result_data = NoBody
    /\ image_url = None
    /\ ret = None
    /\ exc = NoError
    /\ client_key = None
    /\ eevents = <<>>
    /\ eret = None
    /\ eexc = NoError

Init ==
    /\ cmd \in {"generate", "edit", "variations", "analyze", "makenoise"}
    /\ provider \in IF cmd \in {"analyze", "makenoise"} THEN {"openai"} ELSE {"openai", "bfl"}
    /\ input \in CASE cmd \in {"generate", "makenoise"} -> {"none"}
                  [] cmd = "analyze" -> {"file", "missing", "url", "none"}
                  [] OTHER -> {"file", "missing", "url"}
    /\ mask \in IF cmd = "edit" /\ provider = "openai"
                THEN {"none", "file", "missing"} ELSE {"none"}
    /\ n \in IF cmd = "variations" THEN {1, 2, 3} ELSE {1}
    /\ output \in IF cmd = "variations" /\ provider = "openai" THEN OutputArgs ELSE {out_png}
    /\ output_dir \in IF cmd = "variations" /\ provider = "openai" THEN OutputDirs ELSE {NoDir}
    /\ flag_key \in IF provider = "bfl" /\ cmd = "variations" THEN {None} ELSE FlagKeys
    /\ env_key \in IF provider = "bfl" /\ cmd = "variations" THEN {None} ELSE EnvKeys
    /\ file_key \in IF provider = "bfl" /\ cmd = "variations" THEN {None} ELSE FileKeys
    /\ Idle
    /\ epc = "off"

(***************************************************************************)
(* bfl_generate_image and bfl_edit_image: submit, then poll.               *)
(***************************************************************************)
NonTerminal == {"Processing", "Queued", "Pending"}

\* Line 389 (481): status == "Ready".
IsReadyLoose(status) == status \in {"Ready", "Pending"}
IsReady(status) == status = "Ready"

\* The loop going round on two of the three statuses.
KeepsPollingNoPending(status) == status \in {"Processing", "Queued"}

\* Line 400 (492): the statuses the loop goes round on.
KeepsPolling(status) == status \in NonTerminal

\* Line 391 (483): not image_url.
MissingUrlNoneOnly(url) == url = None
MissingUrl(url) == ~Truthy(url)

\* Line 401 (493): the error of a failed job, formatted from the status and
\* the whole status response.
StatusErrorNoPayload(status, body) ==
    Err("ValueError", "Generation failed with status: {status}", Str(status), NoBody)
StatusError(status, body) ==
    Err("ValueError", "Generation failed with status: {status}. Full response: {result_data}",
        Str(status), body)

\* result_data.get("result", {}).get("sample"): the URL, None when there is
\* none; "AttributeError" when "result" is null (None has no get).
SampleOf(body) ==
    CASE body.result = Absent -> None
      [] body.result = "null" -> "AttributeError"
      [] OTHER -> Get(body.sample)

\* The result URL read from every status response, before the status is
\* looked at.
ClassifyReadsUrlFirst(body) ==
    LET status == Get(body.status)
        url == IF body.result = "null" THEN None ELSE SampleOf(body) IN
    IF IsReady(status)
    THEN IF body.result = "null"
         THEN [next |-> "raise", url |-> None,
               err |-> Err("AttributeError", "'NoneType' object has no attribute 'get'",
                           "", NoBody)]
         ELSE IF MissingUrl(url)
         THEN [next |-> "raise", url |-> url,
               err |-> Err("ValueError", "No image URL in result", "", NoBody)]
         ELSE [next |-> "fetch", url |-> url, err |-> NoError]
    ELSE IF ~KeepsPolling(status)
    THEN [next |-> "raise", url |-> url, err |-> StatusError(status, body)]
    ELSE [next |-> "sleep", url |-> url, err |-> NoError]

\* Lines 386-401: what the loop does with a status response: "fetch" the
\* result, "sleep" and poll again, or "raise".
Classify(body) ==
    LET status == Get(body.status) IN
    IF IsReady(status)
    THEN IF body.result = "null"
         THEN [next |-> "raise", url |-> None,
               err |-> Err("AttributeError", "'NoneType' object has no attribute 'get'",
                           "", NoBody)]
         ELSE IF MissingUrl(SampleOf(body))
         THEN [next |-> "raise", url |-> SampleOf(body),
               err |-> Err("ValueError", "No image URL in result", "", NoBody)]
         ELSE [next |-> "fetch", url |-> SampleOf(body), err |-> NoError]
    ELSE IF ~KeepsPolling(status)
    THEN [next |-> "raise", url |-> image_url, err |-> StatusError(status, body)]
    ELSE [next |-> "sleep", url |-> image_url, err |-> NoError]

\* The key resolved and used whatever it is.
BflResolveKeyNoCheck ==
    /\ pc = "bfl_key"
    /\ bfl_api_key' = Or(flag_key, load_bfl_api_key)
    /\ pc' = IF Fn = "bfl_edit_image" THEN "bfl_prepare" ELSE "bfl_submit"
    /\ UNCHANGED <<ret, exc>>
    /\ UNCHANGED <<args, twin, client_key, events, stdout, exitCode, outputs, tempFiles,
                   request_id, response, polled, img_response, slept, result_data, image_url>>

\* Lines 331-334 (406-409): resolve the key, fail without one.
BflResolveKey ==
    /\ pc = "bfl_key"
    /\ bfl_api_key' = Or(flag_key, load_bfl_api_key)
    /\ IF ~Truthy(bfl_api_key')
       THEN Raise(Err("ValueError", "No BFL API key found. Set BFL_API_KEY environment variable or use --bfl-api-key", "", NoBody))
       ELSE /\ pc' = IF Fn = "bfl_edit_image" THEN "bfl_prepare" ELSE "bfl_submit"
            /\ UNCHANGED <<ret, exc>>
    /\ UNCHANGED <<args, twin, client_key, events, stdout, exitCode, outputs, tempFiles,
                   request_id, response, polled, img_response, slept, result_data, image_url>>

\* bfl_edit_image, lines 411-455: encode the input image, shrink a large one.
BflEditPrepare ==
    /\ pc = "bfl_prepare"
    /\ \E large \in BOOLEAN :
         stdout' = stdout \o <<Line("Input image size: ", NoError)>>
                          \o (IF large THEN <<Line("Resized image to: ", NoError)>> ELSE <<>>)
    /\ pc' = "bfl_submit"
    /\ UNCHANGED <<args, twin, client_key, events, exitCode, outputs, tempFiles, job, ret, exc>>

\* The submission with no check of the job identifier.
BflSubmitNoIdCheck ==
    /\ pc = "bfl_submit"
    /\ events' = Append(events, "POST")
    /\ \E code \in HttpCodes, id \in IdValues :
         /\ response' = [code |-> code, id |-> id, content |-> "-"]
         /\ IF raise_for_status(code)
            THEN /\ Raise(HTTPError)
                 /\ UNCHANGED request_id
            ELSE /\ request_id' = Get(id)
                 /\ pc' = "bfl_sleep"
                 /\ UNCHANGED <<ret, exc>>
    /\ UNCHANGED <<args, twin, client_key, stdout, exitCode, outputs, tempFiles,
                   bfl_api_key, polled, img_response, slept, result_data, image_url>>

\* Lines 366-380 (458-472): the submission POST and the job identifier.
BflSubmit ==
    /\ pc = "bfl_submit"
    /\ events' = Append(events, "POST")
    /\ \E code \in HttpCodes, id \in IdValues :
         LET printed == IF code # 200
                        THEN Append(stdout, Line("Error response: ", NoError))
                        ELSE stdout
         IN
         /\ response' = [code |-> code, id |-> id, content |-> "-"]
         /\ IF raise_for_status(code)
            THEN /\ stdout' = printed
                 /\ Raise(HTTPError)
                 /\ UNCHANGED request_id
            ELSE /\ request_id' = Get(id)
                 /\ IF ~Truthy(request_id')
                    THEN /\ stdout' = printed
                         /\ Raise(Err("ValueError", "No request ID returned from BFL API", "", NoBody))
                    ELSE /\ stdout' = Append(printed, Line("Request submitted. Waiting for generation to complete...", NoError))
                         /\ pc' = "bfl_sleep"
                         /\ UNCHANGED <<ret, exc>>
    /\ UNCHANGED <<args, twin, client_key, exitCode, outputs, tempFiles,
                   bfl_api_key, polled, img_response, slept, result_data, image_url>>

\* The loop giving up after two polls.
BflSleepWithTimeout ==
    /\ pc = "bfl_sleep"
    /\ polls < MaxPolls
    /\ IF polls >= 2
       THEN /\ Raise(Err("TimeoutError", "timed out", "", NoBody))
            /\ UNCHANGED <<events, slept>>
       ELSE /\ events' = Append(events, "sleep")
            /\ slept' = slept + PollIntervalMs
            /\ pc' = "bfl_poll"
            /\ UNCHANGED <<ret, exc>>
    /\ UNCHANGED <<args, twin, client_key, stdout, exitCode, outputs, tempFiles, bfl_api_key, request_id,
                   response, polled, img_response, result_data, image_url>>

\* The loop without its sleep.
BflSleepSkipped ==
    /\ pc = "bfl_sleep"
    /\ polls < MaxPolls
    /\ pc' = "bfl_poll"
    /\ UNCHANGED <<args, twin, client_key, events, stdout, exitCode, outputs, tempFiles, job, ret, exc>>

\* Line 382 (474): time.sleep(1.5) at the head of the loop.
BflSleep ==
    /\ pc = "bfl_sleep"
    /\ polls < MaxPolls
    /\ events' = Append(events, "sleep")
    /\ slept' = slept + PollIntervalMs
    /\ pc' = "bfl_poll"
    /\ UNCHANGED <<args, twin, client_key, stdout, exitCode, outputs, tempFiles, bfl_api_key, request_id,
                   response, polled, img_response, result_data, image_url, ret, exc>>

\* A status poll that failed at the HTTP level tried again after the next
\* sleep.
BflPollRetries ==
    /\ pc = "bfl_poll"
    /\ events' = Append(events, "GET_status")
    /\ \E code \in HttpCodes, body \in StatusBodies :
         IF raise_for_status(code)
         THEN /\ polled' = Append(polled, HttpFailed)
              /\ pc' = "bfl_sleep"
              /\ UNCHANGED <<result_data, image_url, ret, exc>>
         ELSE /\ result_data' = body
              /\ polled' = Append(polled, Get(body.status))
              /\ image_url' = Classify(body).url
              /\ IF Classify(body).next = "raise"
                 THEN Raise(Classify(body).err)
                 ELSE /\ pc' = IF Classify(body).next = "fetch"
                               THEN "bfl_fetch" ELSE "bfl_sleep"
                      /\ UNCHANGED <<ret, exc>>
    /\ UNCHANGED <<args, twin, client_key, stdout, exitCode, outputs, tempFiles, bfl_api_key, request_id,
                   response, img_response, slept>>

\* Lines 383-401 (475-493) up to the download: the status GET and what the
\* status means.
BflPoll ==
    /\ pc = "bfl_poll"
    /\ events' = Append(events, "GET_status")
    /\ \E code \in HttpCodes, body \in StatusBodies :
         IF raise_for_status(code)
         THEN /\ Raise(HTTPError)
              /\ polled' = Append(polled, HttpFailed)
              /\ UNCHANGED <<result_data, image_url>>
         ELSE /\ result_data' = body
              /\ polled' = Append(polled, Get(body.status))
              /\ image_url' = Classify(body).url
              /\ IF Classify(body).next = "raise"
                 THEN Raise(Classify(body).err)
                 ELSE /\ pc' = IF Classify(body).next = "fetch"
                               THEN "bfl_fetch" ELSE "bfl_sleep"
                      /\ UNCHANGED <<ret, exc>>
    /\ UNCHANGED <<args, twin, client_key, stdout, exitCode, outputs, tempFiles, bfl_api_key, request_id,
                   response, img_response, slept>>

\* The downloaded bytes written to the output path by the poller itself,
\* before they are decoded.
BflFetchWritesFile ==
    /\ pc = "bfl_fetch"
    /\ events' = Append(events, "GET_content")
    /\ \E code \in HttpCodes, content \in Contents :
         /\ img_response' = [code |-> code, id |-> "-", content |-> content]
         /\ IF raise_for_status(code)
            THEN /\ Raise(HTTPError)
                 /\ UNCHANGED outputs
            ELSE /\ outputs' = {[path |-> resolve_output_path(output, output_dir), image |-> 1]}
                 /\ IF Image_open(content) = None
                    THEN Raise(Err("UnidentifiedImageError", "cannot identify image file", "", NoBody))
                    ELSE Return(Image_open(content))
    /\ UNCHANGED <<args, twin, client_key, stdout, exitCode, tempFiles, bfl_api_key, request_id,
                   response, polled, slept, result_data, image_url>>

\* The download issued twice.
BflFetchTwice ==
    /\ pc = "bfl_fetch"
    /\ events' = events \o <<"GET_content", "GET_content">>
    /\ \E code \in HttpCodes, content \in Contents :
         /\ img_response' = [code |-> code, id |-> "-", content |-> content]
         /\ IF raise_for_status(code)
            THEN Raise(HTTPError)
            ELSE IF Image_open(content) = None
            THEN Raise(Err("UnidentifiedImageError", "cannot identify image file", "", NoBody))
            ELSE Return(Image_open(content))
    /\ UNCHANGED <<args, twin, client_key, stdout, exitCode, outputs, tempFiles, bfl_api_key, request_id,
                   response, polled, slept, result_data, image_url>>

\* The download tried again after a refused response.
BflFetchRetry ==
    /\ pc = "bfl_fetch"
    /\ fetches < 2
    /\ events' = Append(events, "GET_content")
    /\ \E code \in HttpCodes, content \in Contents :
         /\ img_response' = [code |-> code, id |-> "-", content |-> content]
         /\ IF raise_for_status(code)
            THEN /\ pc' = "bfl_fetch"
                 /\ UNCHANGED <<ret, exc>>
            ELSE IF Image_open(content) = None
            THEN Raise(Err("UnidentifiedImageError", "cannot identify image file", "", NoBody))
            ELSE Return(Image_open(content))
    /\ UNCHANGED <<args, twin, client_key, stdout, exitCode, outputs, tempFiles, bfl_api_key, request_id,
                   response, polled, slept, result_data, image_url>>

\* Lines 394-398 (486-490): download the result and decode it.
BflFetch ==
    /\ pc = "bfl_fetch"
    /\ events' = Append(events, "GET_content")
    /\ \E code \in HttpCodes, content \in Contents :
         /\ img_response' = [code |-> code, id |-> "-", content |-> content]
         /\ IF raise_for_status(code)
            THEN Raise(HTTPError)
            ELSE IF Image_open(content) = None
            THEN Raise(Err("UnidentifiedImageError", "cannot identify image file", "", NoBody))
            ELSE Return(Image_open(content))
    /\ UNCHANGED <<args, twin, client_key, stdout, exitCode, outputs, tempFiles, bfl_api_key, request_id,
                   response, polled, slept, result_data, image_url>>

(***************************************************************************)
(* process_image, and the synchronous provider calls.                      *)
(***************************************************************************)
\* Lines 60-79: the error process_image raises for an input, NoError when it
\* returns the image; `fetched` says whether the URL's download succeeded.
process_image(kind, fetched) ==
    CASE kind = "url" /\ ~fetched ->
            Err("ValueError", "Failed to download image from URL: ", "", NoBody)
      [] kind = "missing" ->
            Err("FileNotFoundError", "Image file not found: ", "", NoBody)
      [] OTHER -> NoError

\* Line 62: a URL is downloaded.
IsUrl(kind) == kind = "url"

\* The first element of an images response (lines 115-123, 163-171, 211-218):
\* base64 of an image, base64 of other bytes, a URL, or neither.
ImageData == {"b64_png_A", "b64_garbage", "url", "empty"}

\* What decoding the first element gives: the image, or the error raised.
DecodeImageData(d) ==
    CASE d = "b64_png_A" -> [image |-> Image_open("png_A"), err |-> NoError]
      [] d = "b64_garbage" ->
            [image |-> None,
             err |-> Err("UnidentifiedImageError", "cannot identify image file", "", NoBody)]
      [] d = "url" ->
            [image |-> None,
             err |-> Err("NotImplementedError", "URL response handling is not implemented", "", NoBody)]
      [] OTHER ->
            [image |-> None,
             err |-> Err("ValueError", "No image data found in the response", "", NoBody)]

APIError == Err("APIError", "openai", "", NoBody)

\* OpenAI(api_key=None) raises: no key was given and none is in the environment.
OpenAIError == Err("OpenAIError", "The api_key client option must be set", "", NoBody)
\* The OSError a file operation raises; `call` names the operation.
OSError(call) == Err("OSError", call, "", NoBody)

\* generate_image, lines 81-123: one call, then decode.
OpenAIGenerate ==
    /\ pc = "openai_generate"
    /\ client_key' = openai_api_key
    /\ IF client_key' = None
       THEN /\ Raise(OpenAIError)
            /\ UNCHANGED events
       ELSE /\ events' = Append(events, "POST_openai")
            /\ \/ Raise(APIError)
               \/ \E d \in ImageData :
                    IF DecodeImageData(d).err # NoError
                    THEN Raise(DecodeImageData(d).err)
                    ELSE Return(DecodeImageData(d).image)
    /\ UNCHANGED <<args, twin, stdout, exitCode, outputs, tempFiles, job>>

(***************************************************************************)
(* edit_image, lines 125-179.                                              *)
(***************************************************************************)
\* Lines 129-135: build the client.
EditClient ==
    /\ pc = "edit_client"
    /\ client_key' = openai_api_key
    /\ IF client_key' = None
       THEN Raise(OpenAIError)
       ELSE /\ pc' = "edit_save_input"
            /\ UNCHANGED <<ret, exc>>
    /\ UNCHANGED <<args, twin, events, stdout, exitCode, outputs, tempFiles, job>>

\* Lines 138-141: save the input to its temporary file.  A failed save may
\* leave the file behind or not.
EditSaveInput ==
    /\ pc = "edit_save_input"
    /\ \/ /\ tempFiles' = tempFiles \cup {"input"}
          /\ pc' = "edit_open_input"
          /\ UNCHANGED <<ret, exc>>
       \/ /\ \E left \in BOOLEAN :
               tempFiles' = IF left THEN tempFiles \cup {"input"} ELSE tempFiles
          /\ Raise(OSError("input_image.save"))
    /\ UNCHANGED <<args, twin, client_key, events, stdout, exitCode, outputs, job>>

\* Line 144: open the temporary input file.
EditOpenInput ==
    /\ pc = "edit_open_input"
    /\ \/ /\ pc' = IF mask # "none" THEN "edit_save_mask" ELSE "edit_call"
          /\ UNCHANGED <<ret, exc>>
       \/ Raise(OSError("open(temp_input_path)"))
    /\ UNCHANGED <<args, twin, client_key, events, stdout, exitCode, outputs, tempFiles, job>>

\* Lines 155-157: save the mask to its temporary file.
EditSaveMask ==
    /\ pc = "edit_save_mask"
    /\ \/ /\ tempFiles' = tempFiles \cup {"mask"}
          /\ pc' = "edit_open_mask"
          /\ UNCHANGED <<ret, exc>>
       \/ /\ \E left \in BOOLEAN :
               tempFiles' = IF left THEN tempFiles \cup {"mask"} ELSE tempFiles
          /\ Raise(OSError("mask_image.save"))
    /\ UNCHANGED <<args, twin, client_key, events, stdout, exitCode, outputs, job>>

\* Line 158: open the temporary mask file.
EditOpenMask ==
    /\ pc = "edit_open_mask"
    /\ \/ /\ pc' = "edit_call"
          /\ UNCHANGED <<ret, exc>>
       \/ Raise(OSError("open(temp_mask_path)"))
    /\ UNCHANGED <<args, twin, client_key, events, stdout, exitCode, outputs, tempFiles, job>>

\* Lines 160-171: inside try, the call and the decoding of its response.
EditCall ==
    /\ pc = "edit_call"
    /\ events' = Append(events, "POST_openai")
    /\ \/ /\ exc' = APIError
          /\ ret' = None
       \/ \E d \in ImageData :
            /\ exc' = DecodeImageData(d).err
            /\ ret' = DecodeImageData(d).image
    /\ pc' = "edit_finally"
    /\ UNCHANGED <<args, twin, client_key, stdout, exitCode, outputs, tempFiles, job>>

\* Lines 173-179: finally, remove the temporary files; then the function
\* returns or the exception goes on.
EditFinally ==
    /\ pc = "edit_finally"
    /\ tempFiles' = (tempFiles \ {"input"}) \ (IF mask # "none" THEN {"mask"} ELSE {})
    /\ pc' = IF exc # NoError THEN "except" ELSE "returned"
    /\ UNCHANGED <<args, twin, client_key, events, stdout, exitCode, outputs, job, ret, exc>>

(***************************************************************************)
(* create_variations, lines 181-234.                                       *)
(***************************************************************************)
\* Lines 184-190: build the client.
VarClient ==
    /\ pc = "var_client"
    /\ client_key' = openai_api_key
    /\ IF client_key' = None
       THEN Raise(OpenAIError)
       ELSE /\ pc' = "var_save_input"
            /\ UNCHANGED <<ret, exc>>
    /\ UNCHANGED <<args, twin, events, stdout, exitCode, outputs, tempFiles, job>>

\* Lines 193-196: save the input to its temporary file.
VarSaveInput ==
    /\ pc = "var_save_input"
    /\ \/ /\ tempFiles' = tempFiles \cup {"input"}
          /\ pc' = "var_open_input"
          /\ UNCHANGED <<ret, exc>>
       \/ /\ \E left \in BOOLEAN :
               tempFiles' = IF left THEN tempFiles \cup {"input"} ELSE tempFiles
          /\ Raise(OSError("input_image.save"))
    /\ UNCHANGED <<args, twin, client_key, events, stdout, exitCode, outputs, job>>

\* Line 199: open the temporary input file.
VarOpenInput ==
    /\ pc = "var_open_input"
    /\ \/ /\ pc' = "var_call"
          /\ UNCHANGED <<ret, exc>>
       \/ Raise(OSError("open(temp_input_path)"))
    /\ UNCHANGED <<args, twin, client_key, events, stdout, exitCode, outputs, tempFiles, job>>

\* Lines 206-230: inside try, the call and the decoding of every element
\* (for n > 1 the first element that does not decode raises).
VarCall ==
    /\ pc = "var_call"
    /\ events' = Append(events, "POST_openai")
    /\ \/ /\ exc' = APIError
          /\ ret' = None
       \/ \E d \in ImageData :
            /\ exc' = DecodeImageData(d).err
            /\ ret' = DecodeImageData(d).image
    /\ pc' = "var_finally"
    /\ UNCHANGED <<args, twin, client_key, stdout, exitCode, outputs, tempFiles, job>>

\* Lines 232-234: finally, remove the temporary file.
VarFinally ==
    /\ pc = "var_finally"
    /\ tempFiles' = tempFiles \ {"input"}
    /\ pc' = IF exc # NoError THEN "except" ELSE "returned"
    /\ UNCHANGED <<args, twin, client_key, events, stdout, exitCode, outputs, job, ret, exc>>

(***************************************************************************)
(* The command handlers.                                                   *)
(***************************************************************************)
\* generate_command, lines 534-579: choose the provider function.
GenerateCommand ==
    /\ pc = "start"
    /\ cmd = "generate"
    /\ pc' = IF provider = "bfl" THEN "bfl_key" ELSE "openai_generate"
    /\ UNCHANGED <<args, twin, client_key, events, stdout, exitCode, outputs, tempFiles, job, ret, exc>>

\* edit_command and variations_command, lines 593-594 and 640-641: load the
\* input before anything else; analyze_command, lines 679-682: load it when
\* one is given.
LoadInput ==
    /\ pc = "start"
    /\ cmd \in {"edit", "variations"} \/ (cmd = "analyze" /\ input # "none")
    /\ events' = IF IsUrl(input) THEN Append(events, "GET_input") ELSE events
    /\ \E fetched \in BOOLEAN :
         IF process_image(input, fetched) # NoError
         THEN Raise(process_image(input, fetched))
         ELSE /\ pc' = "loaded"
              /\ UNCHANGED <<ret, exc>>
    /\ UNCHANGED <<args, twin, client_key, stdout, exitCode, outputs, tempFiles, job>>

\* edit_command, lines 596-628: choose the provider function; the mask is
\* loaded for the openai provider only.
EditCommand ==
    /\ pc = "loaded"
    /\ cmd = "edit"
    /\ IF provider = "bfl"
       THEN /\ pc' = "bfl_key"
            /\ UNCHANGED <<ret, exc>>
       ELSE IF mask # "none" /\ process_image(mask, TRUE) # NoError
       THEN Raise(process_image(mask, TRUE))
       ELSE /\ pc' = "edit_client"
            /\ UNCHANGED <<ret, exc>>
    /\ UNCHANGED <<args, twin, client_key, events, stdout, exitCode, outputs, tempFiles, job>>

\* variations_command, lines 643-654: refuse the bfl provider (exit(1) raises
\* SystemExit, which `except Exception` does not catch), else call
\* create_variations.
VariationsCommand ==
    /\ pc = "loaded"
    /\ cmd = "variations"
    /\ IF provider = "bfl"
       THEN /\ stdout' = Append(stdout, Line("Error: Variations not supported with BFL provider", NoError))
            /\ exitCode' = 1
            /\ pc' = "exit"
       ELSE /\ pc' = "var_client"
            /\ UNCHANGED <<stdout, exitCode>>
    /\ UNCHANGED <<args, twin, client_key, events, outputs, tempFiles, job, ret, exc>>

\* analyze_command, lines 683-691, and analyze_image, lines 236-276: one chat
\* call with the image, its answer printed.
AnalyzeImage ==
    /\ pc = "loaded"
    /\ cmd = "analyze"
    /\ client_key' = openai_api_key
    /\ IF client_key' = None
       THEN /\ Raise(OpenAIError)
            /\ UNCHANGED <<events, stdout, exitCode>>
       ELSE /\ events' = Append(events, "POST_openai")
            /\ \/ /\ Raise(APIError)
                  /\ UNCHANGED <<stdout, exitCode>>
               \/ /\ stdout' = Append(stdout, Line("description", NoError))
                  /\ exitCode' = 0
                  /\ pc' = "exit"
                  /\ UNCHANGED <<ret, exc>>
    /\ UNCHANGED <<args, twin, outputs, tempFiles, job>>

\* analyze_command, lines 693-700, and analyze_text, lines 278-295: one chat
\* call without an image.
AnalyzeText ==
    /\ pc = "start"
    /\ cmd = "analyze"
    /\ input = "none"
    /\ client_key' = openai_api_key
    /\ IF client_key' = None
       THEN /\ Raise(OpenAIError)
            /\ UNCHANGED <<events, stdout, exitCode>>
       ELSE /\ events' = Append(events, "POST_openai")
            /\ \/ /\ Raise(APIError)
                  /\ UNCHANGED <<stdout, exitCode>>
               \/ /\ stdout' = Append(stdout, Line("response", NoError))
                  /\ exitCode' = 0
                  /\ pc' = "exit"
                  /\ UNCHANGED <<ret, exc>>
    /\ UNCHANGED <<args, twin, outputs, tempFiles, job>>

\* generate_sound_effect, lines 300-303: resolve the key, fail without one.
NoiseResolveKey ==
    /\ pc = "start"
    /\ cmd = "makenoise"
    /\ client_key' = Or(flag_key, load_elevenlabs_api_key)
    /\ IF ~Truthy(client_key')
       THEN Raise(Err("ValueError", "No ElevenLabs API key found. Set ELEVENLABS_API_KEY environment variable or use --elevenlabs-api-key", "", NoBody))
       ELSE /\ pc' = "noise_call"
            /\ UNCHANGED <<ret, exc>>
    /\ UNCHANGED <<args, twin, events, stdout, exitCode, outputs, tempFiles, job>>

\* generate_sound_effect, lines 305-325: the text-to-sound-effects call.
NoiseCall ==
    /\ pc = "noise_call"
    /\ events' = Append(events, "POST_elevenlabs")
    /\ \/ Raise(APIError)
       \/ /\ ret' = "audio"
          /\ pc' = "noise_write"
          /\ UNCHANGED exc
    /\ UNCHANGED <<args, twin, client_key, stdout, exitCode, outputs, tempFiles, job>>

\* makenoise_command, lines 716-723: write the audio to the output file.  The
\* open may fail, and so may a chunk after the file was created.
NoiseWrite ==
    /\ pc = "noise_write"
    /\ \/ /\ outputs' = {[path |-> resolve_output_path(output, output_dir), image |-> 1]}
          /\ stdout' = Append(stdout, Line("Sound effect saved to ", NoError))
          /\ exitCode' = 0
          /\ pc' = "exit"
          /\ UNCHANGED exc
       \/ /\ exc' = OSError("open(output_path)")
          /\ pc' = "except"
          /\ UNCHANGED <<outputs, stdout, exitCode>>
       \/ /\ outputs' = {[path |-> resolve_output_path(output, output_dir), image |-> 1]}
          /\ exc' = APIError
          /\ pc' = "except"
          /\ UNCHANGED <<stdout, exitCode>>
    /\ UNCHANGED <<args, twin, client_key, events, tempFiles, job, ret>>

\* The output files of a command, in the order they are written: one, or one
\* per variation (lines 656-670).
OutputFiles ==
    IF cmd = "variations" /\ n # 1
    THEN [i \in 1..n |-> [path |-> VariationPath(resolve_output_path(output, output_dir), i),
                          image |-> i]]
    ELSE <<[path |-> resolve_output_path(output, output_dir), image |-> 1]>>

\* Lines 581-584, 630-632, 656-670: save the result and report it, file by
\* file; a save that fails raises into the handler's except and leaves the
\* files written before it.
Save ==
    /\ pc = "returned"
    /\ \/ /\ outputs' = {OutputFiles[i] : i \in 1..Len(OutputFiles)}
          /\ stdout' = stdout \o [i \in 1..Len(OutputFiles) |-> Line("Image saved to ", NoError)]
          /\ exitCode' = 0
          /\ pc' = "exit"
          /\ UNCHANGED <<ret, exc>>
       \/ \E k \in 1..Len(OutputFiles) :
            /\ outputs' = {OutputFiles[i] : i \in 1..(k - 1)}
            /\ stdout' = stdout \o [i \in 1..(k - 1) |-> Line("Image saved to ", NoError)]
            /\ exc' = OSError("result_image.save")
            /\ pc' = "except"
            /\ UNCHANGED <<exitCode, ret>>
    /\ UNCHANGED <<args, twin, client_key, events, tempFiles, job>>

\* The handler without its exit(1): the error printed, the command returning
\* as if it had succeeded.
ExceptNoExit ==
    /\ pc = "except"
    /\ stdout' = Append(stdout, Line("Error: ", exc))
    /\ exitCode' = 0
    /\ pc' = "exit"
    /\ UNCHANGED <<args, twin, client_key, events, outputs, tempFiles, job, ret, exc>>

\* Lines 585-587, 633-635, 672-674, 701-703, 724-726: print the error and exit
\* with 1.
Except ==
    /\ pc = "except"
    /\ stdout' = Append(stdout, Line("Error: ", exc))
    /\ exitCode' = 1
    /\ pc' = "exit"
    /\ UNCHANGED <<args, twin, client_key, events, outputs, tempFiles, job, ret, exc>>

Next ==
    \/ GenerateCommand
    \/ AnalyzeImage
    \/ AnalyzeText
    \/ NoiseResolveKey
    \/ NoiseCall
    \/ NoiseWrite
    \/ EditClient
    \/ VarClient
    \/ LoadInput
    \/ EditCommand
    \/ VariationsCommand
    \/ BflResolveKey
    \/ BflEditPrepare
    \/ BflSubmit
    \/ BflSleep
    \/ BflPoll
    \/ BflFetch
    \/ OpenAIGenerate
    \/ EditSaveInput
    \/ EditOpenInput
    \/ EditSaveMask
    \/ EditOpenMask
    \/ EditCall
    \/ EditFinally
    \/ VarSaveInput
    \/ VarOpenInput
    \/ VarCall
    \/ VarFinally
    \/ Save
    \/ Except

Spec == Init /\ [][Next]_vars

\* The interpreter keeps running the program: a step that can be taken is taken.
FairSpec == Spec /\ WF_vars(Next)

(***************************************************************************)
(* bfl_edit_image beside bfl_generate_image.  A run of generate with bfl,  *)
(* and bfl_edit_image called with the same key argument and given, one by  *)
(* one, the responses bfl_generate_image received: the submission response *)
(* (response), each status response (polled, result_data) and the content  *)
(* response (img_response).                                                *)
(***************************************************************************)
main == <<args, client_key, pc, events, stdout, exitCode, outputs, tempFiles, job, ret, exc>>

epolls == Count(eevents, "GET_status")

EditRaise(e) == /\ eexc' = e
                /\ eret' = None
                /\ epc' = "raised"

EditReturn(v) == /\ eret' = v
                 /\ eexc' = NoError
                 /\ epc' = "returned"

\* Lines 406-409: resolve the key, fail without one.
BflEditResolveKey ==
    /\ epc = "bfl_key"
    /\ IF ~Truthy(Or(flag_key, load_bfl_api_key))
       THEN EditRaise(Err("ValueError", "No BFL API key found. Set BFL_API_KEY environment variable or use --bfl-api-key", "", NoBody))
       ELSE /\ epc' = "bfl_encode"
            /\ UNCHANGED <<eret, eexc>>
    /\ UNCHANGED <<main, eevents>>

\* Lines 411-455: encode the input image.
BflEditEncode ==
    /\ epc = "bfl_encode"
    /\ epc' = "bfl_submit"
    /\ UNCHANGED <<main, eevents, eret, eexc>>

\* Lines 458-472: the submission POST and the job identifier.
BflEditSubmit ==
    /\ epc = "bfl_submit"
    /\ response # NoResponse
    /\ eevents' = Append(eevents, "POST")
    /\ IF response.code >= 400 /\ response.code < 600
       THEN EditRaise(HTTPError)
       ELSE IF Get(response.id) \in {None, ""}
       THEN EditRaise(Err("ValueError", "No request ID returned from BFL API", "", NoBody))
       ELSE /\ epc' = "bfl_sleep"
            /\ UNCHANGED <<eret, eexc>>
    /\ UNCHANGED main

\* Line 474: time.sleep(1.5) at the head of the loop.
BflEditSleep ==
    /\ epc = "bfl_sleep"
    /\ epolls < MaxPolls
    /\ eevents' = Append(eevents, "sleep")
    /\ epc' = "bfl_poll"
    /\ UNCHANGED <<main, eret, eexc>>

\* Lines 475-493 up to the download: the status GET, answered as
\* bfl_generate_image's latest status GET was.
BflEditPoll ==
    /\ epc = "bfl_poll"
    /\ Len(polled) = epolls + 1
    /\ eevents' = Append(eevents, "GET_status")
    /\ IF polled[Len(polled)] = HttpFailed
       THEN EditRaise(HTTPError)
       ELSE IF Get(result_data.status) = "Ready"
       THEN IF result_data.result = "null"
            THEN EditRaise(Err("AttributeError", "'NoneType' object has no attribute 'get'",
                               "", NoBody))
            ELSE IF result_data.result = Absent \/ Get(result_data.sample) \in {None, ""}
            THEN EditRaise(Err("ValueError", "No image URL in result", "", NoBody))
            ELSE /\ epc' = "bfl_fetch"
                 /\ UNCHANGED <<eret, eexc>>
       ELSE IF Get(result_data.status) \notin {"Processing", "Queued", "Pending"}
       THEN EditRaise(Err("ValueError",
                          "Generation failed with status: {status}. Full response: {result_data}",
                          Str(Get(result_data.status)), result_data))
       ELSE /\ epc' = "bfl_sleep"
            /\ UNCHANGED <<eret, eexc>>
    /\ UNCHANGED main

\* Lines 486-490: download the result and decode it.
BflEditFetch ==
    /\ epc = "bfl_fetch"
    /\ img_response # NoResponse
    /\ eevents' = Append(eevents, "GET_content")
    /\ IF img_response.code >= 400 /\ img_response.code < 600
       THEN EditRaise(HTTPError)
       ELSE IF Image_open(img_response.content) = None
       THEN EditRaise(Err("UnidentifiedImageError", "cannot identify image file", "", NoBody))
       ELSE EditReturn(Image_open(img_response.content))
    /\ UNCHANGED main

\* bfl_generate_image's next status GET, once bfl_edit_image was given the
\* answer to the one before.
BflPollNext ==
    /\ epolls = polls
    /\ BflPoll

EquivInit ==
    /\ cmd = "generate"
    /\ provider = "bfl"
    /\ input = "none"
    /\ mask = "none"
    /\ n = 1
    /\ output = out_png
    /\ output_dir = NoDir
    /\ flag_key \in FlagKeys
    /\ env_key \in EnvKeys
    /\ file_key \in FileKeys
    /\ Idle
    /\ epc = "bfl_key"

EquivNext ==
    \/ GenerateCommand
    \/ BflResolveKey
    \/ BflSubmit
    \/ BflSleep
    \/ BflPollNext
    \/ BflFetch
    \/ BflEditResolveKey
    \/ BflEditEncode
    \/ BflEditSubmit
    \/ BflEditSleep
    \/ BflEditPoll
    \/ BflEditFetch

EquivSpec == EquivInit /\ [][EquivNext]_vars

(***************************************************************************)
(* The poller's run, as the properties below read it.                      *)
(***************************************************************************)
Last(s) == s[Len(s)]

\* A run that calls bfl_generate_image or bfl_edit_image.
BflRun == provider = "bfl" /\ cmd \in {"generate", "edit"}

\* The poller's own events: the download of a URL input is process_image's.
PollerEvents == SelectSeq(events, LAMBDA e : e # "GET_input")

\* The poller was entered with a credential and has ended.
PollerEnded == BflRun /\ posts >= 1 /\ pc \in {"returned", "except", "exit"}

InLoop == pc \in {"bfl_sleep", "bfl_poll"}

\* A status response that carries a result reference.
HasRef(body) == body.result = "dict" /\ Truthy(Get(body.sample))

\* The last status received is Ready and that response carries a reference.
ReadyWithRef == polled # <<>> /\ Last(polled) = "Ready" /\ HasRef(result_data)

\* The content GET was answered without a 4xx/5xx by bytes that decode.
FetchedImage ==
    /\ img_response # NoResponse
    /\ ~raise_for_status(img_response.code)
    /\ Image_open(img_response.content) # None

\* Every status GET so far was answered by a non-terminal status.
StuckSoFar == \A i \in 1..Len(polled) : polled[i] \in NonTerminal

\* k rounds of sleep, then status GET.
RECURSIVE PollRounds(_)
PollRounds(k) == IF k = 0 THEN <<>> ELSE <<"sleep", "GET_status">> \o PollRounds(k - 1)

(***************************************************************************)
(* C1.                                                                     *)
(***************************************************************************)
\* C1, as stated: when the poller has ended, it returned an image if and only
\* if the last status received is Ready with a result reference; it never
\* returned on a non-terminal status, and without an image it ended in an error.
C1_AsStated ==
    PollerEnded =>
        /\ (ret # None) <=> ReadyWithRef
        /\ ret # None => (polled # <<>> /\ Last(polled) \notin NonTerminal)
        /\ ret = None => exc # NoError

\* C1, amended: the poller returned an image if and only if the last status
\* received is Ready with a result reference and the content GET of that
\* reference was answered without an HTTP error by bytes that decode as an
\* image; it never returned on a non-terminal status, and in every other ended
\* run there is an error and no image.
C1_ImageIffReadyAndFetched ==
    PollerEnded =>
        /\ (ret # None) <=> (ReadyWithRef /\ FetchedImage)
        /\ ret # None => (polled # <<>> /\ Last(polled) \notin NonTerminal)
        /\ ret = None => exc # NoError

\* C1's case: an image returned after two polls.
C1_Witness == PollerEnded /\ ret # None /\ Len(polled) = 2 /\ ReadyWithRef

(***************************************************************************)
(* C2.                                                                     *)
(***************************************************************************)
\* C2: after k non-terminal statuses and then Ready with a result reference,
\* with no HTTP call refused, the poller has left the loop having issued the
\* POST, k+1 rounds of sleep and status GET and, once it has ended, exactly one
\* content GET after them; it returns the image those bytes decode to.
C2_PollsThenOneFetch ==
    (/\ BflRun
     /\ ReadyWithRef
     /\ \A i \in 1..(Len(polled) - 1) : polled[i] \in NonTerminal
     /\ ~raise_for_status(img_response.code))
    => LET k == Len(polled) - 1 IN
       /\ ~InLoop
       /\ polls = k + 1
       /\ pc = "bfl_fetch" => PollerEvents = <<"POST">> \o PollRounds(k + 1)
       /\ pc # "bfl_fetch" =>
            /\ PollerEvents = <<"POST">> \o PollRounds(k + 1) \o <<"GET_content">>
            /\ fetches = 1
            /\ img_response # NoResponse
            /\ Image_open(img_response.content) # None
                  => ret = Image_open(img_response.content)

\* C2's case: [Queued, Processing, Ready]: 3 polls, 1 fetch, the image returned.
C2_Witness ==
    /\ BflRun
    /\ pc = "exit"
    /\ polled = <<"Queued", "Processing", "Ready">>
    /\ polls = 3
    /\ fetches = 1
    /\ ret = Image_open(img_response.content)
    /\ ret # None

(***************************************************************************)
(* C3.                                                                     *)
(***************************************************************************)
\* A status that is none of Queued, Processing, Pending, Ready.
FailureStatus(status) == status \notin (NonTerminal \cup {"Ready", HttpFailed})

\* C3: once a status GET gave a status other than Queued, Processing, Pending,
\* Ready (a missing status field too), the poller has failed, that GET is its
\* last event, no content GET was issued, and the error's message is formatted
\* from that status and the whole status response.
C3_FailureStatusRaises ==
    (BflRun /\ polled # <<>> /\ FailureStatus(Last(polled))) =>
        /\ pc \in {"except", "exit"}
        /\ ret = None
        /\ fetches = 0
        /\ polls = Len(polled)
        /\ Last(PollerEvents) = "GET_status"
        /\ exc.type = "ValueError"
        /\ exc.status = Str(Last(polled))
        /\ exc.payload = result_data
        /\ Get(result_data.status) = Last(polled)

\* C3's case: the second poll gives "Error".
C3_Witness ==
    /\ BflRun
    /\ pc = "exit"
    /\ polled = <<"Pending", "Error">>
    /\ exc.status = "Error"
    /\ exc.payload = result_data

(***************************************************************************)
(* C4.                                                                     *)
(***************************************************************************)
\* C4: while every status GET is answered by Queued, Processing or Pending,
\* the poller is in its loop, having neither returned nor failed; and in a run
\* where that stays so, every poll the model follows is eventually issued.
C4_PollsForever ==
    /\ []((BflRun /\ posts >= 1 /\ Truthy(request_id) /\ StuckSoFar)
            => (InLoop /\ ret = None /\ exc = NoError))
    /\ ([]StuckSoFar /\ <>(pc = "bfl_sleep")) => <>(polls = MaxPolls)

\* C4's case: every poll of the model issued, every answer non-terminal.
C4_Witness == BflRun /\ pc = "bfl_sleep" /\ polls = MaxPolls /\ StuckSoFar

(***************************************************************************)
(* C5.                                                                     *)
(***************************************************************************)
\* C5: the poller issues at most one POST, exactly one once it is past the
\* submission with a credential; and after a submission response without a
\* job identifier it has failed with "No request ID returned from BFL API",
\* with no sleep, status GET or content GET.
C5_OneSubmission ==
    BflRun =>
        /\ posts <= 1
        /\ (Truthy(bfl_api_key) /\ pc \notin {"bfl_prepare", "bfl_submit"}) => posts = 1
        /\ (posts = 1 /\ ~raise_for_status(response.code) /\ ~Truthy(Get(response.id))) =>
              /\ pc \in {"except", "exit"}
              /\ exc = Err("ValueError", "No request ID returned from BFL API", "", NoBody)
              /\ ret = None
              /\ PollerEvents = <<"POST">>

\* C5's case: a 200 submission response whose id is empty.
C5_Witness ==
    /\ BflRun
    /\ pc = "exit"
    /\ response.code = 200
    /\ response.id = ""
    /\ exc.text = "No request ID returned from BFL API"

C7_OneFetchNoRetry ==
    (BflRun /\ ReadyWithRef) =>
        /\ ~InLoop
        /\ polls = Len(polled)
        /\ pc = "bfl_fetch" => (fetches = 0 /\ Last(PollerEvents) = "GET_status")
        /\ pc # "bfl_fetch" => (fetches = 1 /\ Last(PollerEvents) = "GET_content")
        /\ raise_for_status(img_response.code) =>
              /\ pc \in {"except", "exit"}
              /\ exc = HTTPError
              /\ ret = None

\* C7's case: the content GET answered by a 500.
C7_Witness ==
    /\ BflRun
    /\ pc = "exit"
    /\ ReadyWithRef
    /\ img_response.code = 500
    /\ fetches = 1
    /\ exc = HTTPError

(***************************************************************************)
(* C8.                                                                     *)
(***************************************************************************)
\* C8: every status GET has a sleep as the event right before it, every sleep
\* is of the fixed interval, and the time slept is at least the interval times
\* the number of status GETs.
C8_SleepBeforeEveryPoll ==
    BflRun =>
        /\ \A i \in 1..Len(PollerEvents) :
              PollerEvents[i] = "GET_status" => (i > 1 /\ PollerEvents[i - 1] = "sleep")
        /\ slept = sleeps * PollIntervalMs
        /\ slept >= polls * PollIntervalMs

\* C8's case: a second poll, after a second sleep.
C8_Witness == BflRun /\ polls = 2 /\ sleeps = 2 /\ slept = 2 * PollIntervalMs

(***************************************************************************)
(* C9.                                                                     *)
(***************************************************************************)
\* C9: variations with --provider bfl ends with exit code 1, the
\* unsupported-operation message printed and no network call, whatever the
\* input names.
C9_VariationsBflRefused ==
    (cmd = "variations" /\ provider = "bfl" /\ pc = "exit") =>
        /\ exitCode = 1
        /\ \E i \in 1..Len(stdout) :
              stdout[i].text = "Error: Variations not supported with BFL provider"
        /\ events = <<>>

(***************************************************************************)
(* C10.                                                                    *)
(***************************************************************************)
\* C10: when edit_image or create_variations has returned or raised, on any of
\* the exit paths the claim lists (that is, the temporary input file was saved
\* and opened), no temporary file of the call exists.
C10_TempFilesRemoved ==
    (/\ provider = "openai"
     /\ cmd \in {"edit", "variations"}
     /\ pc \in {"returned", "except", "exit"}
     /\ exc.text \notin {"input_image.save", "open(temp_input_path)"})
    => tempFiles = {}

(***************************************************************************)
(* C11.                                                                    *)
(***************************************************************************)
\* An error is in flight or was handled.
Raised == exc # NoError

\* The handler of variations refused the provider (lines 643-645).
Refused == cmd = "variations" /\ provider = "bfl" /\ ~Raised

\* C11: in each of the five commands a raised error is on its way to the
\* handler's except or was handled there; the run that raised ends with the
\* error printed behind "Error: " as its last line and exit code 1; the run
\* that ended without an error, and was not refused, ends with exit code 0.
C11_ErrorsCaughtAtBoundary ==
    /\ Raised => pc \in {"edit_finally", "var_finally", "except", "exit"}
    /\ (pc = "exit" /\ Raised) =>
            /\ exitCode = 1
            /\ stdout # <<>>
            /\ Last(stdout) = Line("Error: ", exc)
    /\ (pc = "exit" /\ ~Raised /\ ~Refused) => exitCode = 0
    /\ (pc = "except") => Raised

\* C11's case: makenoise failed while writing the audio, after the file was
\* created, and ended with exit code 1.
C11_Witness ==
    /\ cmd = "makenoise"
    /\ pc = "exit"
    /\ exc = APIError
    /\ outputs # {}
    /\ exitCode = 1

(***************************************************************************)
(* C12.                                                                    *)
(***************************************************************************)
\* The credential the run's provider was called with.
KeyUsed == IF BflRun THEN bfl_api_key ELSE client_key

\* The provider of the run was sent a request.
Requested ==
    \E i \in 1..Len(events) : events[i] \in {"POST", "POST_openai", "POST_elevenlabs"}

\* The key file's contents, trimmed; None without a file.
FileContents == IF file_key = None THEN None ELSE strip(file_key)

\* C12: whichever provider the run calls, the request carries the flag's value
\* when a flag was given, else the environment variable's when it is set,
\* else the key file's trimmed contents; with none of the three, no key.
C12_FlagThenEnvThenFile ==
    Requested =>
        /\ Truthy(flag_key) => KeyUsed = flag_key
        /\ (~Truthy(flag_key) /\ Truthy(env_key)) => KeyUsed = env_key
        /\ (~Truthy(flag_key) /\ ~Truthy(env_key) /\ Truthy(FileContents)) =>
                KeyUsed = FileContents
        /\ (~Truthy(flag_key) /\ ~Truthy(env_key) /\ ~Truthy(FileContents)) =>
                ~Truthy(KeyUsed)

\* C12's case: a BFL submission with no flag, the environment variable set
\* and a key file of another value beside the program.
C12_Witness ==
    /\ BflRun
    /\ posts = 1
    /\ flag_key = None
    /\ env_key = "envkey"
    /\ file_key = " filekey\n"
    /\ bfl_api_key = "envkey"

(***************************************************************************)
(* C13.                                                                    *)
(***************************************************************************)
\* The index of the last c among the first i characters of s, 0 without one.
RECURSIVE LastIndexOf(_, _, _)
LastIndexOf(s, c, i) ==
    IF i = 0 THEN 0 ELSE IF s[i] = c THEN i ELSE LastIndexOf(s, c, i - 1)

\* Where the file extension of a path starts: the last dot of its last
\* component; past the end of the path, when that component has no dot.
ExtensionAt(path) ==
    IF LastIndexOf(path, ".", Len(path)) > LastIndexOf(path, "/", Len(path))
    THEN LastIndexOf(path, ".", Len(path))
    ELSE Len(path) + 1

\* The path with _<i> put immediately before its file extension; a path
\* without an extension is given the default one, png.
NumberedPath(path, i) ==
    SubSeq(path, 1, ExtensionAt(path) - 1) \o <<"_">> \o <<ToString(i)>> \o
    (IF ExtensionAt(path) > Len(path) THEN <<".", "p", "n", "g">>
     ELSE SubSeq(path, ExtensionAt(path), Len(path)))

\* C13: when variations with n > 1 has saved its images, the files written are
\* the output path with _1 .. _n put immediately before its file extension,
\* the i-th holding the i-th returned image, whether or not the path has an
\* extension and wherever its dots are.
C13_NumberedBeforeExtension ==
    (cmd = "variations" /\ n # 1 /\ pc = "exit" /\ exitCode = 0) =>
        outputs = {[path |-> NumberedPath(resolve_output_path(output, output_dir), i),
                    image |-> i] : i \in 1..n}

(***************************************************************************)
(* C14.                                                                    *)
(***************************************************************************)
\* The status of the latest status response is Ready.
StatusReady == polled # <<>> /\ Last(polled) = "Ready"

\* The poller holds a result URL.
RefDefined == Truthy(image_url)

\* C14 as stated: in every state of a poller run the result URL the poller
\* holds is defined exactly when the latest status is Ready.
C14_AsStated == BflRun => (RefDefined <=> StatusReady)

\* C14: in every state of a poller run the result URL the poller holds is
\* defined only when the latest status is Ready; when the status is Ready and
\* no URL is held, the poller has failed on that response, with no content
\* fetch and no image.
C14_RefOnlyWhenReady ==
    BflRun =>
        /\ RefDefined => StatusReady
        /\ (StatusReady /\ ~RefDefined) =>
              /\ pc \in {"except", "exit"}
              /\ \/ exc = Err("ValueError", "No image URL in result", "", NoBody)
                 \/ exc.type = "AttributeError"
              /\ fetches = 0
              /\ ret = None

\* C14's case: Ready came after a non-terminal status, with a result URL,
\* and the poller holds it.
C14_Witness ==
    /\ BflRun
    /\ Len(polled) = 2
    /\ polled[1] \in NonTerminal
    /\ StatusReady
    /\ RefDefined
    /\ pc = "bfl_fetch"

(***************************************************************************)
(* C15.                                                                    *)
(***************************************************************************)
\* The run is inside bfl_generate_image or bfl_edit_image.
InPoller == pc \in {"bfl_key", "bfl_prepare", "bfl_submit", "bfl_sleep", "bfl_poll", "bfl_fetch"}

\* The poller raised: missing credential or job identifier, transport error,
\* failure status, missing result URL, bytes that do not decode.
PollerFailed == BflRun /\ pc \in {"except", "exit"} /\ ret = None

\* C15: in generate and edit with bfl, no file exists while the poller runs,
\* neither output nor temporary; an output file exists only after the poller
\* returned the image it fetched, and then it is the one output file of the
\* ended command; after a poller run that failed there is none.
C15_NoFileBeforeImage ==
    BflRun =>
        /\ InPoller => (outputs = {} /\ tempFiles = {})
        /\ outputs # {} =>
              /\ FetchedImage
              /\ ret = Image_open(img_response.content)
              /\ pc = "exit"
              /\ outputs = {[path |-> resolve_output_path(output, output_dir), image |-> 1]}
        /\ PollerFailed => outputs = {}
        /\ tempFiles = {}

\* C15's case: an edit with bfl whose poller polled twice, fetched the image
\* and returned it, and whose output file was then written.
C15_Witness ==
    /\ BflRun
    /\ cmd = "edit"
    /\ polls = 2
    /\ fetches = 1
    /\ ret # None
    /\ outputs # {}
    /\ pc = "exit"

(***************************************************************************)
(* C16.                                                                    *)
(***************************************************************************)
\* C16: a status poll answered by a 4xx/5xx is the poller's last event,
\* whatever the statuses before it: the poller has raised the HTTP error with
\* no image, and no poll and no content fetch follows; every status GET that
\* was followed by another was answered without an HTTP error by a
\* non-terminal status.
C16_FailedPollNotRetried ==
    BflRun =>
        /\ polls = Len(polled)
        /\ \A i \in 1..Len(polled) :
              /\ polled[i] = HttpFailed =>
                    /\ i = Len(polled)
                    /\ Last(PollerEvents) = "GET_status"
                    /\ fetches = 0
                    /\ pc \in {"except", "exit"}
                    /\ exc = HTTPError
                    /\ ret = None
              /\ i < Len(polled) => polled[i] \in NonTerminal

\* C16's case: two polls answered by non-terminal statuses, the third by an
\* HTTP error, the error handled.
C16_Witness ==
    /\ BflRun
    /\ Len(polled) = 3
    /\ polled[1] \in NonTerminal
    /\ polled[2] \in NonTerminal
    /\ polled[3] = HttpFailed
    /\ pc = "exit"
    /\ exitCode = 1

(***************************************************************************)
(* C17.                                                                    *)
(***************************************************************************)
\* No credential of the run's provider: no flag or an empty one, no
\* environment variable or an empty one, no key file or a blank one.
NoCredential == ~Truthy(flag_key) /\ ~Truthy(env_key) /\ ~Truthy(FileContents)

\* The missing-credential error of bfl_generate_image and bfl_edit_image.
NoBflKey ==
    Err("ValueError", "No BFL API key found. Set BFL_API_KEY environment variable or use --bfl-api-key", "", NoBody)

\* The command has not called the provider function yet.
BeforeCall == pc \in {"start", "loaded", "bfl_key"}

\* The input of edit could not be loaded: the provider function is not called.
InputFailed ==
    /\ cmd = "edit"
    /\ exc # NoError
    /\ exc \in {process_image(input, TRUE), process_image(input, FALSE)}

\* C17: in a run of generate or edit with bfl and no credential, the poller
\* issues no POST, no status GET, no content GET and no sleep, ever; once
\* bfl_generate_image or bfl_edit_image was called, it has raised the
\* missing-credential error and returned no image.
C17_NoKeyNoRequest ==
    (BflRun /\ NoCredential) =>
        /\ PollerEvents = <<>>
        /\ slept = 0
        /\ BeforeCall \/ InputFailed \/
              (pc \in {"except", "exit"} /\ exc = NoBflKey /\ ret = None)

\* C17's case: edit with bfl, an empty flag, no environment variable and a
\* blank key file; the input was loaded, the function called, the error
\* handled.
C17_Witness ==
    /\ cmd = "edit"
    /\ provider = "bfl"
    /\ flag_key = ""
    /\ env_key = None
    /\ file_key = "  \n"
    /\ input = "file"
    /\ pc = "exit"
    /\ exc = NoBflKey
    /\ exitCode = 1

(***************************************************************************)
(* C18.                                                                    *)
(***************************************************************************)
IsPrefix(s, t) == Len(s) <= Len(t) /\ SubSeq(t, 1, Len(s)) = s

\* bfl_generate_image has returned or raised.
GenEnded == pc \in {"returned", "except"}

\* bfl_edit_image has returned or raised.
EditEnded == epc \in {"returned", "raised"}

\* A step of bfl_edit_image.
EditNext ==
    \/ BflEditResolveKey
    \/ BflEditEncode
    \/ BflEditSubmit
    \/ BflEditSleep
    \/ BflEditPoll
    \/ BflEditFetch

\* C18: given the responses bfl_generate_image received, the events of
\* bfl_edit_image and those of bfl_generate_image (sleep, POST, status GET,
\* content GET) are at every moment one the beginning of the other; the one
\* that has ended has issued every event the other has; when both have
\* ended, their events are the same sequence and their outcomes are the
\* same, the image or the error; and when bfl_generate_image has ended,
\* bfl_edit_image has ended or can still take a step.
C18_SameEventsSameOutcome ==
    /\ IsPrefix(eevents, events) \/ IsPrefix(events, eevents)
    /\ GenEnded => IsPrefix(eevents, events)
    /\ EditEnded => IsPrefix(events, eevents)
    /\ (GenEnded /\ EditEnded) =>
          /\ eevents = events
          /\ eret = ret
          /\ eexc = exc
    /\ (GenEnded /\ ~EditEnded) => ENABLED EditNext

\* C18's case: both polled twice, the second status Ready, both fetched the
\* content and returned the same image.
C18_Witness ==
    /\ epc = "returned"
    /\ pc = "returned"
    /\ eevents = <<"POST", "sleep", "GET_status", "sleep", "GET_status", "GET_content">>
    /\ eret = ret
    /\ ret # None

====
